---------------------------- MODULE Spec2Model ----------------------------
(***************************************************************************)
(* Model of the synthetic materials data generator                         *)
(* (src/generate_dummy_data.py) and of the merger (src/merge_data.py).     *)
(*                                                                         *)
(* Numbers that the program holds as floats are fixed-point integers in    *)
(* units of 1/FP.  The two process-global random generators (Python's      *)
(* `random` and numpy's `np.random`) are deterministic finite-state        *)
(* generators: seeding sets the state from the seed, every library call    *)
(* reads one value from the state and advances it.                         *)
(***************************************************************************)
EXTENDS Integers, Sequences, FiniteSets, TLC

(***************************************************************************)
(* Bounds of the model.                                                    *)
(***************************************************************************)
MaxRows == 3          \* gen_rows is called with n in MinRows..MaxRows
MaxSeed == 7          \* seeds are 0..MaxSeed
PyMod == 31           \* number of states of the model of `random`
NpMod == 29           \* number of states of the model of `np.random`
LongRows == 1001      \* the row count of the long run (ids past "M999")
MaxTableRows == 2     \* rows per input table of the merger
WideSeed == 898       \* the wide run takes its seed in 0..WideSeed
WideRows == 3         \* the row count of the wide run
MainSeed == 1         \* main is run with --seed in 0..MainSeed

MinRows == 0 - 1
NRows == MinRows..MaxRows
Seeds == 0..MaxSeed

\* an optional value is the empty sequence or a sequence of one value
None == <<>>
Some(x) == <<x>>

(***************************************************************************)
(* Fixed-point arithmetic.                                                 *)
(***************************************************************************)
FP == 10000

\* floor(x * num / den) without leaving 32 bits
MulFrac(x, num, den) == (x \div den) * num + ((x % den) * num) \div den

\* Python's int(x) on a float: truncation toward zero
int(x) == IF x >= 0 THEN x \div FP ELSE 0 - ((0 - x) \div FP)

\* Python's float(k) on an int
float(k) == k * FP

\* Python's round(x, d), FP/step = 10^d: nearest multiple, ties to even
round(x, step) ==
  LET q == x \div step
      r == x % step
  IN  IF 2 * r < step THEN q * step
      ELSE IF 2 * r > step THEN (q + 1) * step
      ELSE IF q % 2 = 0 THEN q * step ELSE (q + 1) * step

Dp1 == FP \div 10
Dp2 == FP \div 100
Dp3 == FP \div 1000

Min2(a, b) == IF a <= b THEN a ELSE b
Max2(a, b) == IF a >= b THEN a ELSE b

\* clamp without its upper bound
clampNoUpper(x, lo, hi) == Max2(lo, x)

clamp(x, lo, hi) == Max2(lo, Min2(hi, x))

\* math.exp on the arguments np.random.lognormal meets in this model
Exp(a) ==
  CASE a = 11000 -> 30041
    [] a = 12000 -> 33201
    [] a = 19000 -> 66858
    [] a = 29000 -> 181741
    [] a = 32900 -> 268428
    [] a = 33000 -> 271126
    [] a = 34400 -> 311869
    [] a = 35000 -> 331154
    [] a = 35600 -> 351631
    [] a = 37100 -> 408538
    [] a = 37550 -> 427342
    [] a = 39300 -> 509069
    [] a = 40000 -> 545981
    [] a = 40700 -> 585569
    [] a = 41000 -> 603402
    [] a = 42450 -> 697557
    [] a = 44550 -> 860561
    [] a = 46300 -> 1025140
    [] a = 47000 -> 1099471
    [] a = 47700 -> 1179192
    [] a = 49450 -> 1404708
    [] a = 54000 -> 2214064
    [] a = 59000 -> 3650374
    [] a = 62000 -> 4927490
    [] a = 68000 -> 8978472
    [] a = 75000 -> 18080424
    [] a = 83000 -> 40238723
    [] a = 87550 -> 63423205
    [] a = 89300 -> 75552653
    [] a = 90000 -> 81030839
    [] a = 90700 -> 86906238
    [] a = 92450 -> 103526727
    [] a = 97000 -> 163176071
    [] a = 118000 -> 1332523529

(***************************************************************************)
(* Enumerations of the generator.                                          *)
(***************************************************************************)
CATEGORIES == <<"Natural", "Synthetic", "Recycled", "Bio-based">>
USE_CASES == <<"Fabric", "Upper", "Midsole", "Outsole", "Packaging", "Trim">>
REGIONS == <<"Vietnam", "China", "India", "Turkey", "USA", "Mexico", "Brazil",
             "Indonesia", "Thailand", "Italy">>
TIER_LEVELS == <<"Tier 1", "Tier 2", "Tier 3">>
RISK_LEVELS == <<"Low", "Medium", "High">>
CONF_LEVELS == <<"Low", "Medium", "High">>

(***************************************************************************)
(* The random generators.                                                  *)
(***************************************************************************)
\* random.random() takes the values u / PyRes, u in 0..PyRes-1
PyRes == 20

\* standard normal deviates, in tenths
ZTab == <<0 - 80, 0 - 20, 0 - 7, 0 - 2, 0, 2, 7, 20, 80>>

PySeed(s) == (7 * s + 3) % PyMod
NpSeed(s) == (5 * s + 11) % NpMod

PyNext(x) == (3 * x + 7) % PyMod
NpNext(x) == (2 * x + 3) % NpMod

\* the value the next call reads
PyOut(x) == x % PyRes
NpOut(x) == ZTab[(x % Len(ZTab)) + 1]

RECURSIVE NpSkip(_, _)
NpSkip(x, k) == IF k = 0 THEN x ELSE NpSkip(NpNext(x), k - 1)

\* np.random.normal(mu, sd) on the deviate z
normal(mu, sd, z) == mu + (sd * z) \div 10

\* np.random.lognormal(mean, sigma) on the deviate z
lognormal(mean, sigma, z) == Exp(normal(mean, sigma, z))

RECURSIVE SumTo(_, _)
SumTo(w, j) == IF j = 0 THEN 0 ELSE w[j] + SumTo(w, j - 1)

\* random.choices(items, weights, k=1)[0] on the uniform value u/PyRes:
\* bisect_right of u * total in the cumulative weights, capped at the last
\* item; weights are in hundredths
choice_weighted(items, weights, u) ==
  LET total == SumTo(weights, Len(weights))
      idx == Cardinality({j \in 1..(Len(items) - 1) :
                            SumTo(weights, j) * PyRes <= u * total})
  IN  items[idx + 1]

\* random.choice(seq) on the uniform value u/PyRes
choice(seq, u) == seq[(u * Len(seq)) \div PyRes + 1]

(***************************************************************************)
(* One iteration of the loop of gen_rows, as a function of the loop index  *)
(* and of the states of the two generators when the iteration begins.      *)
(***************************************************************************)
Digit == <<"0", "1", "2", "3", "4", "5", "6", "7", "8", "9">>

RECURSIVE Decimal(_)
Decimal(k) == IF k < 10 THEN Digit[k + 1]
              ELSE Decimal(k \div 10) \o Digit[(k % 10) + 1]

RECURSIVE ZeroPad(_, _)
ZeroPad(str, width) == IF Len(str) >= width THEN str
                       ELSE ZeroPad("0" \o str, width)

\* the id keeps three digits only
MaterialIdWrap(i) == "M" \o ZeroPad(Decimal(i % 1000), 3)

\* f"M{i:03d}"
MaterialId(i) == "M" \o ZeroPad(Decimal(i), 3)

\* make_material_name(category) on the two uniform values it reads
make_material_name(category, u1, u2) ==
  LET natural == <<"Cotton", "Wool", "Leather", "Linen", "Hemp">>
      synthetic == <<"Polyester", "Nylon", "Elastane", "EVA", "TPU">>
      recycled == <<"Recycled Polyester", "Recycled Nylon", "Recycled TPU",
                    "rPET">>
      biobased == <<"Bio-EVA", "PLA", "Bio-TPU", "Castor-based Nylon">>
      pool == CASE category = "Natural" -> natural
                [] category = "Synthetic" -> synthetic
                [] category = "Recycled" -> recycled
                [] category = "Bio-based" -> biobased
      base == choice(pool, u1)
      qualifiers == <<"", "", "", " - Lightweight", " - Premium",
                      " - High Tenacity", " - Low Dye">>
  IN  base \o choice(qualifiers, u2)

\* recycled content with the range of the else branch for every category
RecycledContentOneRange(category, z) ==
  IF category = "Recycled"
    THEN clamp(int(normal(70 * FP, 20 * FP, z)), 0, 15)
    ELSE IF category = "Bio-based"
      THEN clamp(int(normal(10 * FP, 10 * FP, z)), 0, 15)
      ELSE clamp(int(normal(2 * FP, 4 * FP, z)), 0, 15)

\* recycled content, lines 67-72
RecycledContent(category, z) ==
  IF category = "Recycled"
    THEN clamp(int(normal(70 * FP, 20 * FP, z)), 20, 100)
    ELSE IF category = "Bio-based"
      THEN clamp(int(normal(10 * FP, 10 * FP, z)), 0, 40)
      ELSE clamp(int(normal(2 * FP, 4 * FP, z)), 0, 15)

\* the base distributions of the environmental impacts, lines 78-105;
\* z is the sequence of the five deviates read, u the uniform value that
\* decides microplastics when one is read
Impacts(category, z, u) ==
  CASE category = "Natural" ->
         [carbon |-> normal(50000, 12000, z[1]),
          water |-> lognormal(90000, 3500, z[2]),
          energy |-> normal(60 * FP, 15 * FP, z[3]),
          land |-> normal(80000, 20000, z[4]),
          microplastics |-> "Low",
          recyclability |-> normal(45 * FP, 15 * FP, z[5])]
    [] category = "Synthetic" ->
         [carbon |-> normal(60000, 15000, z[1]),
          water |-> lognormal(40000, 3500, z[2]),
          energy |-> normal(85 * FP, 18 * FP, z[3]),
          land |-> normal(25000, 10000, z[4]),
          microplastics |-> choice_weighted(RISK_LEVELS, <<15, 55, 30>>, u),
          recyclability |-> normal(55 * FP, 15 * FP, z[5])]
    [] category = "Recycled" ->
         [carbon |-> normal(30000, 9000, z[1]),
          water |-> lognormal(35000, 3000, z[2]),
          energy |-> normal(70 * FP, 15 * FP, z[3]),
          land |-> normal(18000, 8000, z[4]),
          microplastics |-> choice_weighted(RISK_LEVELS, <<10, 55, 35>>, u),
          recyclability |-> normal(70 * FP, 12 * FP, z[5])]
    [] OTHER ->
         [carbon |-> normal(38000, 10000, z[1]),
          water |-> lognormal(47000, 3500, z[2]),
          energy |-> normal(75 * FP, 15 * FP, z[3]),
          land |-> normal(45000, 15000, z[4]),
          microplastics |-> choice_weighted(RISK_LEVELS, <<25, 55, 20>>, u),
          recyclability |-> normal(60 * FP, 15 * FP, z[5])]

base_conc(category) ==
  CASE category = "Natural" -> 4500
    [] category = "Synthetic" -> 5500
    [] category = "Recycled" -> 6000
    [] category = "Bio-based" -> 7000

region_risk_map(region) ==
  CASE region = "USA" -> 20 [] region = "Italy" -> 25
    [] region = "Mexico" -> 35 [] region = "Turkey" -> 45
    [] region = "Brazil" -> 40 [] region = "Vietnam" -> 50
    [] region = "Thailand" -> 45 [] region = "China" -> 55
    [] region = "India" -> 55 [] region = "Indonesia" -> 60

\* lines 140-141: the weighted combination plus noise, clamped
Disruption(supplier_conc, country_risk, lead_time, z) ==
  LET disruption == (45 * supplier_conc) \div 100
                    + (35 * (country_risk \div 100)) \div 100
                    + (20 * ((lead_time * FP) \div 120)) \div 100
  IN  clamp(disruption + normal(0, 500, z), 100, 9500)

\* the uniform value is read before the category is tested
NeedsCertDrawAlways(category) == TRUE

\* line 166: the uniform value is read only when the category test holds
NeedsCertDraw(category) == category \in {"Natural", "Bio-based"}

Certification(category, u) ==
  IF category \in {"Natural", "Bio-based"} /\ u * 100 < 55 * PyRes
    THEN "Y" ELSE "N"

\* The body of the loop, lines 60-207.  py0 and np0 are the states of
\* `random` and `np.random` when the iteration begins.  The result holds
\* the four rows appended, the states of the generators afterwards and the
\* names of the values whose draw called into `random`, in call order.
\* np.random is called fourteen times in every iteration; the number of
\* calls of `random` varies.
NpCallsPerRow == 14

LoopBody(i, py0, np0) ==
  LET z(k) == NpOut(NpSkip(np0, k - 1))
      material_id == MaterialId(i)
      category == choice_weighted(CATEGORIES, <<30, 30, 25, 15>>, PyOut(py0))
      py1 == PyNext(py0)
      use_case == choice(USE_CASES, PyOut(py1))
      py2 == PyNext(py1)
      primary_region == choice(REGIONS, PyOut(py2))
      py3 == PyNext(py2)
      tier_level == choice_weighted(TIER_LEVELS, <<55, 30, 15>>, PyOut(py3))
      py4 == PyNext(py3)
      recycled_content == RecycledContent(category, z(1))
      name == make_material_name(category, PyOut(py4), PyOut(PyNext(py4)))
      py6 == PyNext(PyNext(py4))
      \* environmental impacts
      base == Impacts(category, <<z(2), z(3), z(4), z(5), z(6)>>, PyOut(py6))
      py7 == IF category = "Natural" THEN py6 ELSE PyNext(py6)
      carbon0 == MulFrac(base.carbon, 400 - recycled_content, 400)
      water0 == MulFrac(base.water, 800 - recycled_content, 800)
      carbon == clamp(carbon0, 8000, 12 * FP)
      water == clamp(water0, 10 * FP, 30000 * FP)
      energy == clamp(base.energy, 20 * FP, 140 * FP)
      land == clamp(base.land, 2000, 15 * FP)
      recyclability == clamp(base.recyclability, 0, 100 * FP)
      \* supply chain risk
      supplier_conc == clamp(normal(base_conc(category), 1200, z(7)), 500, 9500)
      country_risk == clamp(normal(float(region_risk_map(primary_region)),
                                   10 * FP, z(8)), 0, 100 * FP)
      climate_exposure ==
        clamp(normal(IF category = "Natural" THEN 50 * FP ELSE 40 * FP,
                     15 * FP, z(9)), 0, 100 * FP)
      price_vol ==
        clamp(normal(IF category \in {"Natural", "Bio-based"}
                       THEN 65 * FP ELSE 55 * FP, 15 * FP, z(10)), 0, 100 * FP)
      lead_time ==
        int(clamp(normal(IF tier_level = "Tier 3" THEN 45 * FP ELSE 30 * FP,
                         10 * FP, z(11)), 7 * FP, 120 * FP))
      disruption == Disruption(supplier_conc, country_risk, lead_time, z(12))
      \* regulatory and confidence
      pfas_risk ==
        IF category \in {"Synthetic", "Recycled"}
          THEN choice_weighted(RISK_LEVELS, <<25, 55, 20>>, PyOut(py7))
          ELSE choice_weighted(RISK_LEVELS, <<65, 30, 5>>, PyOut(py7))
      py8 == PyNext(py7)
      redraw == country_risk > 60 * FP
      py9 == PyNext(py8)
      forced_labor_risk ==
        IF redraw
          THEN choice_weighted(RISK_LEVELS, <<35, 40, 25>>, PyOut(py9))
          ELSE choice_weighted(RISK_LEVELS, <<55, 30, 15>>, PyOut(py8))
      py10 == IF redraw THEN PyNext(py9) ELSE py9
      disclosure_level == int(clamp(normal(3 * FP, FP, z(13)), 1 * FP, 5 * FP))
      data_conf ==
        IF category = "Natural"
          THEN choice_weighted(CONF_LEVELS, <<10, 35, 55>>, PyOut(py10))
          ELSE IF category = "Recycled"
            THEN choice_weighted(CONF_LEVELS, <<45, 40, 15>>, PyOut(py10))
            ELSE choice_weighted(CONF_LEVELS, <<25, 50, 25>>, PyOut(py10))
      py11 == PyNext(py10)
      audit_freq ==
        int(clamp(normal(IF data_conf = "Low" THEN 3 * FP ELSE 2 * FP,
                         15000, z(14)), 0, 12 * FP))
      certification == Certification(category, PyOut(py11))
      py12 == IF NeedsCertDraw(category) THEN PyNext(py11) ELSE py11
      calls == <<"category", "use_case", "primary_region", "tier_level",
                 "base", "qualifier">>
               \o (IF category = "Natural" THEN <<>> ELSE <<"microplastics">>)
               \o <<"pfas_risk", "forced_labor_risk">>
               \o (IF redraw THEN <<"forced_labor_risk">> ELSE <<>>)
               \o <<"data_conf">>
               \o (IF NeedsCertDraw(category) THEN <<"certification">>
                                               ELSE <<>>)
  IN  [materials |->
         [material_id |-> material_id,
          material_name |-> name,
          category |-> category,
          use_case |-> use_case,
          primary_region |-> primary_region,
          tier_level |-> tier_level,
          recycled_content_pct |-> recycled_content,
          notes |-> ""],
       impacts |->
         [material_id |-> material_id,
          carbon_kgco2e_per_kg |-> round(carbon, Dp3),
          water_l_per_kg |-> round(water, Dp1),
          energy_mj_per_kg |-> round(energy, Dp1),
          land_use_m2_per_kg |-> round(land, Dp2),
          recyclability_score |-> round(recyclability, Dp1),
          microplastic_risk |-> base.microplastics],
       supply |->
         [material_id |-> material_id,
          supplier_concentration_index |-> round(supplier_conc, Dp3),
          country_risk_score |-> round(country_risk, Dp1),
          climate_exposure_score |-> round(climate_exposure, Dp1),
          price_volatility_index |-> round(price_vol, Dp1),
          lead_time_days |-> lead_time,
          disruption_probability |-> round(disruption, Dp3)],
       reg |->
         [material_id |-> material_id,
          pfas_regulatory_risk |-> pfas_risk,
          forced_labor_risk |-> forced_labor_risk,
          disclosure_requirement_level |-> disclosure_level,
          data_confidence |-> data_conf,
          audit_frequency_per_year |-> audit_freq,
          certification_available |-> certification],
       py |-> py12,
       np |-> NpSkip(np0, NpCallsPerRow),
       calls |-> calls]

\* the fixed scenario table, lines 214-218 (factors in units of 1/FP)
SCENARIOS ==
  << [scenario |-> "Baseline", microplastics_penalty_factor |-> 10000,
      pfas_penalty_factor |-> 10000, country_risk_multiplier |-> 10000],
     [scenario |-> "Microplastics_Ban_On",
      microplastics_penalty_factor |-> 12500,
      pfas_penalty_factor |-> 10000, country_risk_multiplier |-> 10000],
     [scenario |-> "Geo_Tension_Spike", microplastics_penalty_factor |-> 10000,
      pfas_penalty_factor |-> 10000, country_risk_multiplier |-> 11500] >>

(***************************************************************************)
(* Tables.  A DataFrame is a sequence of column names and a sequence of    *)
(* rows (functions from column names to cells).                            *)
(***************************************************************************)
MATERIALS_COLS == <<"material_id", "material_name", "category", "use_case",
                    "primary_region", "tier_level", "recycled_content_pct",
                    "notes">>
IMPACT_COLS == <<"material_id", "carbon_kgco2e_per_kg", "water_l_per_kg",
                 "energy_mj_per_kg", "land_use_m2_per_kg",
                 "recyclability_score", "microplastic_risk">>
SUPPLY_COLS == <<"material_id", "supplier_concentration_index",
                 "country_risk_score", "climate_exposure_score",
                 "price_volatility_index", "lead_time_days",
                 "disruption_probability">>
REG_COLS == <<"material_id", "pfas_regulatory_risk", "forced_labor_risk",
              "disclosure_requirement_level", "data_confidence",
              "audit_frequency_per_year", "certification_available">>
SCENARIO_COLS == <<"scenario", "microplastics_penalty_factor",
                   "pfas_penalty_factor", "country_risk_multiplier">>

\* pd.DataFrame(list of dicts): the columns are the keys of the dicts, so a
\* frame made from the empty list has no columns
DataFrame(records, cols) ==
  [columns |-> IF records = <<>> THEN <<>> ELSE cols, rows |-> records]

\* the names gen_rows returns its tables under, in the order of the dict
TABLE_NAMES == <<"materials_master", "environmental_impact",
                 "supply_chain_risk", "regulatory_confidence", "scenarios">>

\* os.path.join(out, f"{name}.csv")
PathOf(out, name) == out \o "/" \o name \o ".csv"

OutDirs == {"data"}
COMBINED == "data/smdi_combined.csv"
Paths == {PathOf(d, TABLE_NAMES[j]) : d \in OutDirs, j \in 1..Len(TABLE_NAMES)}
           \cup {COMBINED}

(***************************************************************************)
(* State.                                                                  *)
(***************************************************************************)
VARIABLES
  pyState,    \* state of the process-global generator of `random`
  npState,    \* state of the process-global generator of `np.random`
  pc,         \* gen_rows: "idle" (not running), "loop", "done" (returned)
  n,          \* gen_rows: parameter n
  seed,       \* gen_rows: parameter seed
  i,          \* gen_rows: loop index
  materials,  \* gen_rows: the four lists the loop appends to
  impacts,
  supply,
  reg,
  calls,      \* per row, the calls the iteration made into `random`
  result,     \* the dict gen_rows returned, None before it returns
  ref,        \* the caller's copy of an earlier call's arguments and result
  argv,       \* main: the command line of the process
  mainpc,     \* main: "off", "start", "parsed", "mkdir", "gen", "write", "exit"
  args,       \* main: the parsed arguments
  written,    \* main: number of tables written so far
  exitCode,   \* main: exit status of the process, None while it runs
  dirs,       \* directories that exist
  fs,         \* files: path -> table written, None when there is no file
  stdout,     \* lines printed
  mpc,        \* merger: position in the script
  loaded,     \* merger: the frames read so far
  df,         \* merger: the combined frame
  merr        \* merger: the exception that ended the script, "" if none

genVars == <<pyState, npState, pc, n, seed, i, materials, impacts, supply,
             reg, calls, result>>
mainVars == <<argv, mainpc, args, written, exitCode, dirs>>
mergeVars == <<mpc, loaded, df, merr>>
vars == <<genVars, ref, mainVars, fs, stdout, mergeVars>>

NoFrames == [materials |-> None, impact |-> None, risk |-> None, reg |-> None]

GenIdle ==
  /\ pc = "idle" /\ n = 0 /\ seed = 0 /\ i = 0
  /\ materials = <<>> /\ impacts = <<>> /\ supply = <<>> /\ reg = <<>>
  /\ calls = <<>> /\ result = None

\* a command-line token: not given, or given as an integer literal or not
Absent == [given |-> FALSE, int |-> FALSE, val |-> 0]
Junk == [given |-> TRUE, int |-> FALSE, val |-> 0]
IntTok(v) == [given |-> TRUE, int |-> TRUE, val |-> v]

NoArgv == [rows |-> Absent, seed |-> Absent, out |-> "data"]

MainOff ==
  /\ argv = NoArgv
  /\ mainpc = "off" /\ args = None /\ written = 0 /\ exitCode = None
  /\ dirs = {}

MergeOff ==
  /\ mpc = "off" /\ loaded = NoFrames /\ df = None /\ merr = ""

\* a process in which gen_rows is called any number of times; the
\* generators are in whatever state earlier code of the process left them
Init ==
  /\ pyState \in 0..(PyMod - 1)
  /\ npState \in 0..(NpMod - 1)
  /\ GenIdle
  /\ ref = None
  /\ MainOff
  /\ fs = [p \in Paths |-> None]
  /\ stdout = <<>>
  /\ MergeOff

(***************************************************************************)
(* gen_rows                                                                *)
(***************************************************************************)
\* other code of the process draws from a global generator
PyPreDraw ==
  /\ pc = "idle" /\ mainpc = "off"
  /\ pyState' = PyNext(pyState)
  /\ UNCHANGED <<npState, pc, n, seed, i, materials, impacts, supply, reg,
                 calls, result, ref, mainVars, fs, stdout, mergeVars>>

NpPreDraw ==
  /\ pc = "idle" /\ mainpc = "off"
  /\ npState' = NpNext(npState)
  /\ UNCHANGED <<pyState, pc, n, seed, i, materials, impacts, supply, reg,
                 calls, result, ref, mainVars, fs, stdout, mergeVars>>

\* entry of gen_rows that seeds `random` only
GenRowsEnterNoNpSeed(n0, s0) ==
  /\ pc = "idle"
  /\ pyState' = PySeed(s0)
  /\ npState' = npState
  /\ n' = n0 /\ seed' = s0
  /\ i' = 1
  /\ materials' = <<>> /\ impacts' = <<>> /\ supply' = <<>> /\ reg' = <<>>
  /\ calls' = <<>>
  /\ result' = None
  /\ pc' = "loop"

\* entry of gen_rows that seeds with seed + n
GenRowsEnterSeedWithN(n0, s0) ==
  /\ pc = "idle"
  /\ pyState' = PySeed(s0 + n0 + 1)
  /\ npState' = NpSeed(s0 + n0 + 1)
  /\ n' = n0 /\ seed' = s0
  /\ i' = 1
  /\ materials' = <<>> /\ impacts' = <<>> /\ supply' = <<>> /\ reg' = <<>>
  /\ calls' = <<>>
  /\ result' = None
  /\ pc' = "loop"

\* lines 47-57: entry of gen_rows(n0, s0): both generators are seeded and
\* the four lists start empty
GenRowsEnter(n0, s0) ==
  /\ pc = "idle"
  /\ pyState' = PySeed(s0)
  /\ npState' = NpSeed(s0)
  /\ n' = n0 /\ seed' = s0
  /\ i' = 1
  /\ materials' = <<>> /\ impacts' = <<>> /\ supply' = <<>> /\ reg' = <<>>
  /\ calls' = <<>>
  /\ result' = None
  /\ pc' = "loop"

\* a direct call gen_rows(n0, s0)
GenRowsCall ==
  /\ mainpc = "off"
  /\ \E n0 \in NRows, s0 \in Seeds : GenRowsEnter(n0, s0)
  /\ UNCHANGED <<ref, mainVars, fs, stdout, mergeVars>>

\* the loop runs once more
LoopGuardOffByOne(idx, count) == idx <= count + 1

\* for i in range(1, n + 1)
LoopGuard(idx, count) == idx <= count

\* lines 59-207: one iteration
LoopIter ==
  /\ pc = "loop"
  /\ LoopGuard(i, n)
  /\ LET r == LoopBody(i, pyState, npState)
     IN  /\ materials' = Append(materials, r.materials)
         /\ impacts' = Append(impacts, r.impacts)
         /\ supply' = Append(supply, r.supply)
         /\ reg' = Append(reg, r.reg)
         /\ calls' = Append(calls, r.calls)
         /\ pyState' = r.py
         /\ npState' = r.np
  /\ i' = i + 1
  /\ UNCHANGED <<pc, n, seed, result, ref, mainVars, fs, stdout, mergeVars>>

\* lines 209-219: the loop is over, the dict of five frames is returned
GenRowsReturn ==
  /\ pc = "loop"
  /\ ~LoopGuard(i, n)
  /\ result' =
       Some([materials_master |-> DataFrame(materials, MATERIALS_COLS),
             environmental_impact |-> DataFrame(impacts, IMPACT_COLS),
             supply_chain_risk |-> DataFrame(supply, SUPPLY_COLS),
             regulatory_confidence |-> DataFrame(reg, REG_COLS),
             scenarios |-> DataFrame(SCENARIOS, SCENARIO_COLS)])
  /\ pc' = "done"
  /\ UNCHANGED <<pyState, npState, n, seed, i, materials, impacts, supply,
                 reg, calls, ref, mainVars, fs, stdout, mergeVars>>

\* the frame of gen_rows is gone; the generators keep their states
LeaveGenRows ==
  /\ pc' = "idle" /\ n' = 0 /\ seed' = 0 /\ i' = 0
  /\ materials' = <<>> /\ impacts' = <<>> /\ supply' = <<>> /\ reg' = <<>>
  /\ calls' = <<>> /\ result' = None
  /\ UNCHANGED <<pyState, npState>>

\* the caller keeps the first result it wants to compare later ones with
Keep ==
  /\ pc = "done" /\ mainpc = "off"
  /\ ref = None
  /\ ref' = Some([n |-> n, seed |-> seed, result |-> result[1]])
  /\ LeaveGenRows
  /\ UNCHANGED <<mainVars, fs, stdout, mergeVars>>

\* the caller drops the result
Drop ==
  /\ pc = "done" /\ mainpc = "off"
  /\ LeaveGenRows
  /\ UNCHANGED <<ref, mainVars, fs, stdout, mergeVars>>

Next ==
  \/ PyPreDraw
  \/ NpPreDraw
  \/ GenRowsCall
  \/ LoopIter
  \/ GenRowsReturn
  \/ Keep
  \/ Drop

Spec == Init /\ [][Next]_vars

(***************************************************************************)
(* The long run: one call of gen_rows with more than 999 rows.             *)
(***************************************************************************)
DefaultSeed == 42

GenRowsCallLong ==
  /\ mainpc = "off"
  /\ GenRowsEnter(LongRows, DefaultSeed)
  /\ UNCHANGED <<ref, mainVars, fs, stdout, mergeVars>>

NextLong ==
  \/ GenRowsCallLong
  \/ LoopIter
  \/ GenRowsReturn
  \/ Drop

SpecLong == Init /\ [][NextLong]_vars

(***************************************************************************)
(* The wide run: one call of gen_rows per process, over enough seeds to    *)
(* start the first row from every pair of states of the two generators.    *)
(***************************************************************************)
InitWide == Init /\ pyState = 0 /\ npState = 0

GenRowsCallWide ==
  /\ mainpc = "off"
  /\ \E s0 \in 0..WideSeed : GenRowsEnter(WideRows, s0)
  /\ UNCHANGED <<ref, mainVars, fs, stdout, mergeVars>>

NextWide ==
  \/ GenRowsCallWide
  \/ LoopIter
  \/ GenRowsReturn

SpecWide == InitWide /\ [][NextWide]_vars

(***************************************************************************)
(* Properties of gen_rows.                                                 *)
(***************************************************************************)
PerMaterial == <<"materials_master", "environmental_impact",
                 "supply_chain_risk", "regulatory_confidence">>

Lists == <<materials, impacts, supply, reg>>

Range(f) == {f[x] : x \in DOMAIN f}

RowCount ==
  /\ pc = "loop" =>
       /\ i >= 1
       /\ \A t \in 1..4 : Len(Lists[t]) = i - 1
       /\ i - 1 <= Max2(n, 0)
       /\ n <= 0 => ENABLED GenRowsReturn
  /\ pc = "done" =>
       /\ \A t \in 1..4 :
            Len(result[1][PerMaterial[t]].rows) = IF n >= 1 THEN n ELSE 0
       /\ Len(result[1].scenarios.rows) = 3
       /\ [k \in 1..3 |-> result[1].scenarios.rows[k].scenario]
            = <<"Baseline", "Microplastics_Ban_On", "Geo_Tension_Spike">>
       /\ ref # None => result[1].scenarios = ref[1].result.scenarios

\* a call with n = 2 has returned while the caller holds the result of a
\* call with n <= 0
RowCountWitness ==
  /\ pc = "done" /\ n = 2
  /\ ref # None /\ ref[1].n <= 0 /\ ref[1].seed # seed
  /\ Len(ref[1].result.materials_master.rows) = 0
  /\ Len(result[1].regulatory_confidence.rows) = 2

\* the id of row k: "M", then k in decimal, zero-padded to three digits
IdText(k) ==
  IF k < 1000
    THEN "M" \o Digit[(k \div 100) + 1] \o Digit[((k \div 10) % 10) + 1]
             \o Digit[(k % 10) + 1]
    ELSE "M" \o Digit[(k \div 1000) + 1] \o Digit[((k \div 100) % 10) + 1]
             \o Digit[((k \div 10) % 10) + 1] \o Digit[(k % 10) + 1]

Ids(list) == {list[k].material_id : k \in 1..Len(list)}

\* C3 - Keys: in each of the four tables the ids are pairwise distinct, the
\* four tables hold the same set of ids, and row k of every table carries
\* the id "M" followed by k zero-padded to at least three digits, also
\* past row 999.
KeyUniqueness ==
  /\ \A t \in 1..4 :
       /\ Cardinality(Ids(Lists[t])) = Len(Lists[t])
       /\ Ids(Lists[t]) = Ids(materials)
       /\ \A k \in 1..Len(Lists[t]) : Lists[t][k].material_id = IdText(k)
  /\ pc = "done" =>
       \A t \in 1..4 :
         [k \in 1..Len(Lists[t]) |->
            result[1][PerMaterial[t]].rows[k].material_id]
           = [k \in 1..Len(Lists[t]) |-> IdText(k)]

\* the long run has returned more than 1000 rows
KeyUniquenessWitness ==
  /\ pc = "done"
  /\ Len(result[1].supply_chain_risk.rows) > 1000
  /\ result[1].materials_master.rows[1000].material_id = "M1000"

InRange(x, lo, hi) == lo <= x /\ x <= hi

\* C4 - Ranges: every row written to the tables keeps its clamped fields
\* within the documented bounds, after the final rounding or conversion.
RangeInvariant ==
  /\ \A k \in 1..Len(materials) :
       InRange(materials[k].recycled_content_pct, 0, 100)
  /\ \A k \in 1..Len(impacts) :
       InRange(impacts[k].recyclability_score, 0, 100 * FP)
  /\ \A k \in 1..Len(supply) :
       /\ InRange(supply[k].disruption_probability, 100, 9500)
       /\ InRange(supply[k].lead_time_days, 7, 120)
       /\ InRange(supply[k].supplier_concentration_index, 500, 9500)
       /\ InRange(supply[k].country_risk_score, 0, 100 * FP)
  /\ \A k \in 1..Len(reg) :
       /\ InRange(reg[k].disclosure_requirement_level, 1, 5)
       /\ InRange(reg[k].audit_frequency_per_year, 0, 12)

\* rows whose draws fell outside the bounds, above and below, were written
RangeWitness ==
  /\ \E k \in 1..Len(supply) : supply[k].lead_time_days = 120
  /\ \E k \in 1..Len(supply) : supply[k].disruption_probability = 9500
  /\ \E k \in 1..Len(supply) : supply[k].country_risk_score = 0
  /\ \E k \in 1..Len(impacts) : impacts[k].recyclability_score = 0
  /\ \E k \in 1..Len(reg) : reg[k].disclosure_requirement_level = 1

\* C5 - Category-conditioned bounds: a Natural row has microplastic risk
\* "Low" and no call into `random` decided it; recycled content is in
\* [20,100] for Recycled, [0,40] for Bio-based, [0,15] for Natural and
\* Synthetic.
CategoryBounds ==
  \A k \in 1..Len(materials) :
    LET cat == materials[k].category
        rc == materials[k].recycled_content_pct
    IN  /\ cat = "Natural" =>
             /\ impacts[k].microplastic_risk = "Low"
             /\ "microplastics" \notin Range(calls[k])
        /\ cat = "Recycled" => InRange(rc, 20, 100)
        /\ cat = "Bio-based" => InRange(rc, 0, 40)
        /\ cat \in {"Natural", "Synthetic"} => InRange(rc, 0, 15)

\* a Recycled row at its lower bound and a Natural row were written
CategoryBoundsWitness ==
  /\ \E k \in 1..Len(materials) :
       materials[k].category = "Recycled"
         /\ materials[k].recycled_content_pct = 20
  /\ \E k \in 1..Len(materials) : materials[k].category = "Natural"

\* C9 - Certification: a row has certification "Y" only if its category is
\* Natural or Bio-based; a Synthetic or Recycled row has "N" and its
\* iteration made no call into `random` for it.
CertificationByCategory ==
  \A k \in 1..Len(reg) :
    LET cat == materials[k].category
    IN  /\ reg[k].certification_available \in {"Y", "N"}
        /\ reg[k].certification_available = "Y"
             => cat \in {"Natural", "Bio-based"}
        /\ cat \in {"Synthetic", "Recycled"} =>
             /\ reg[k].certification_available = "N"
             /\ "certification" \notin Range(calls[k])

\* a certified row and a Synthetic or Recycled row were written
CertificationWitness ==
  /\ \E k \in 1..Len(reg) : reg[k].certification_available = "Y"
  /\ \E k \in 1..Len(reg) : materials[k].category \in {"Synthetic", "Recycled"}

\* C10 - Prefix stability: when a call gen_rows(n, s) returns and the
\* caller holds the result of an earlier call with the same seed, the
\* shorter of the two results is, table by table and field by field, the
\* prefix of the longer.
PrefixStability ==
  (pc = "done" /\ ref # None /\ ref[1].seed = seed) =>
    LET short == Max2(Min2(n, ref[1].n), 0)
    IN  \A t \in 1..4 :
          SubSeq(result[1][PerMaterial[t]].rows, 1, short)
            = SubSeq(ref[1].result[PerMaterial[t]].rows, 1, short)

\* a call with more rows than the earlier one, same seed, has returned
PrefixWitness ==
  /\ pc = "done" /\ ref # None /\ ref[1].seed = seed
  /\ ref[1].n >= 1 /\ ref[1].n < n
  /\ materials[2].category # materials[1].category

(***************************************************************************)
(* main of the generator, lines 222-236.                                   *)
(***************************************************************************)
DefaultRows == 90

RowsTokens == {Absent, Junk} \cup {IntTok(v) : v \in NRows}
SeedTokens == {Absent, Junk} \cup {IntTok(v) : v \in 0..MainSeed}

\* one run of the script: the process starts with its command line
InitMain ==
  /\ pyState \in 0..(PyMod - 1)
  /\ npState \in 0..(NpMod - 1)
  /\ GenIdle
  /\ ref = None
  /\ argv \in [rows : RowsTokens, seed : SeedTokens, out : OutDirs]
  /\ mainpc = "start" /\ args = None /\ written = 0 /\ exitCode = None
  /\ dirs = {}
  /\ fs = [p \in Paths |-> None]
  /\ stdout = <<>>
  /\ MergeOff

\* argparse with type=int: a token that is not an integer literal ends the
\* process with a usage error (status 2); an option not given takes its
\* default
ArgValue(tok, default) == IF tok.given THEN tok.val ELSE default

\* lines 223-227
MainParse ==
  /\ mainpc = "start"
  /\ IF \/ (argv.rows.given /\ ~argv.rows.int)
        \/ (argv.seed.given /\ ~argv.seed.int)
       THEN /\ mainpc' = "exit"
            /\ exitCode' = Some(2)
            /\ args' = args
       ELSE /\ args' = Some([rows |-> ArgValue(argv.rows, DefaultRows),
                             seed |-> ArgValue(argv.seed, DefaultSeed),
                             out |-> argv.out])
            /\ mainpc' = "parsed"
            /\ exitCode' = exitCode
  /\ UNCHANGED <<genVars, ref, argv, written, dirs, fs, stdout, mergeVars>>

\* line 229: os.makedirs(args.out, exist_ok=True)
MainMakedirs ==
  /\ mainpc = "parsed"
  /\ dirs' = dirs \cup {args[1].out}
  /\ mainpc' = "mkdir"
  /\ UNCHANGED <<genVars, ref, argv, args, written, exitCode, fs, stdout,
                 mergeVars>>

\* line 230: dfs = gen_rows(args.rows, args.seed)
MainGenRows ==
  /\ mainpc = "mkdir"
  /\ GenRowsEnter(args[1].rows, args[1].seed)
  /\ mainpc' = "gen"
  /\ UNCHANGED <<ref, argv, args, written, exitCode, dirs, fs, stdout,
                 mergeVars>>

\* lines 232-234: one iteration of the loop over dfs.items()
MainWriteTable ==
  /\ \/ mainpc = "gen" /\ pc = "done"
     \/ mainpc = "write"
  /\ written < Len(TABLE_NAMES)
  /\ LET name == TABLE_NAMES[written + 1]
     IN  fs' = [fs EXCEPT ![PathOf(args[1].out, name)] = Some(result[1][name])]
  /\ written' = written + 1
  /\ mainpc' = "write"
  /\ UNCHANGED <<genVars, ref, argv, args, exitCode, dirs, stdout, mergeVars>>

\* line 236, and the end of the process
MainPrint ==
  /\ mainpc = "write"
  /\ written = Len(TABLE_NAMES)
  /\ stdout' = Append(stdout, "Wrote 5 files to: " \o args[1].out)
  /\ mainpc' = "exit"
  /\ exitCode' = Some(0)
  /\ UNCHANGED <<genVars, ref, argv, args, written, dirs, fs, mergeVars>>

NextMain ==
  \/ MainParse
  \/ MainMakedirs
  \/ MainGenRows
  \/ LoopIter
  \/ GenRowsReturn
  \/ MainWriteTable
  \/ MainPrint

SpecMain == InitMain /\ [][NextMain]_vars

\* C7 - Fail fast on an invalid row count: when main is run with a
\* non-positive --rows value it ends with a usage error before generation
\* begins: gen_rows is not called, no directory is created, no file is
\* written, and the process ends with the usage status.
FailFastOnInvalidRows ==
  (argv.rows.given /\ argv.rows.int /\ argv.rows.val <= 0) =>
    /\ pc = "idle"
    /\ dirs = {}
    /\ \A p \in Paths : fs[p] = None
    /\ mainpc = "exit" => exitCode = Some(2)

(***************************************************************************)
(* The merger, src/merge_data.py.                                          *)
(***************************************************************************)
KEY == "material_id"

\* the four inputs in reading order: field of `loaded`, file, and the
\* column an input table of this model has besides the key
INPUTS ==
  << [var |-> "materials", path |-> "data/materials_master.csv",
      col |-> "material_name"],
     [var |-> "impact", path |-> "data/environmental_impact.csv",
      col |-> "microplastic_risk"],
     [var |-> "risk", path |-> "data/supply_chain_risk.csv",
      col |-> "lead_time_days"],
     [var |-> "reg", path |-> "data/regulatory_confidence.csv",
      col |-> "data_confidence"] >>

MergeKeys == {"M001", "M002"}

KeySeqs == UNION {[1..m -> MergeKeys] : m \in 0..MaxTableRows}

\* the contents a file of data/ can have when the merger starts: no file,
\* an empty file (what the generator writes for a frame without columns),
\* a table without the key column, or a table of up to MaxTableRows rows
\* whose second cell is the number of the line
FileChoices(t) ==
  {None,
   Some([columns |-> <<>>, rows |-> <<>>]),
   Some([columns |-> <<INPUTS[t].col>>, rows |-> <<>>])}
    \cup
  {Some([columns |-> <<KEY, INPUTS[t].col>>,
         rows |-> [k \in 1..Len(ks) |->
                     (KEY :> ks[k]) @@ (INPUTS[t].col :> k)]]) :
     ks \in KeySeqs}

InitMerge ==
  /\ pyState = 0 /\ npState = 0
  /\ GenIdle
  /\ ref = None
  /\ MainOff
  /\ \E a \in FileChoices(1), b \in FileChoices(2), c \in FileChoices(3),
        d \in FileChoices(4) :
       fs = [p \in Paths |->
               IF p = INPUTS[1].path THEN a
               ELSE IF p = INPUTS[2].path THEN b
               ELSE IF p = INPUTS[3].path THEN c
               ELSE IF p = INPUTS[4].path THEN d
               ELSE None]
  /\ stdout = <<>>
  /\ mpc = "read1" /\ loaded = NoFrames /\ df = None /\ merr = ""

\* pd.read_csv(path): the exception it raises, "" if none
ReadError(path) ==
  IF fs[path] = None THEN "FileNotFoundError"
  ELSE IF fs[path][1].columns = <<>> THEN "EmptyDataError"
  ELSE ""

\* lines 3-6: the read of input t
ReadCsv(t) ==
  /\ mpc = "read" \o Digit[t + 1]
  /\ IF ReadError(INPUTS[t].path) # ""
       THEN /\ merr' = ReadError(INPUTS[t].path)
            /\ mpc' = "raised"
            /\ loaded' = loaded
       ELSE /\ loaded' = [loaded EXCEPT ![INPUTS[t].var] = fs[INPUTS[t].path]]
            /\ mpc' = IF t < Len(INPUTS) THEN "read" \o Digit[t + 2]
                                         ELSE "merge"
            /\ merr' = merr
  /\ UNCHANGED <<genVars, ref, mainVars, fs, stdout, df>>

ReadMaterials == ReadCsv(1)
ReadImpact == ReadCsv(2)
ReadRisk == ReadCsv(3)
ReadReg == ReadCsv(4)

\* the rows of `right` that match the row l of the left frame, in order
RECURSIVE Matches(_, _, _)
Matches(l, rows, k) ==
  IF k > Len(rows) THEN <<>>
  ELSE (IF rows[k][KEY] = l[KEY] THEN <<l @@ rows[k]>> ELSE <<>>)
         \o Matches(l, rows, k + 1)

RECURSIVE JoinRows(_, _, _)

\* a merge that keeps, for every left row, its first match only
JoinRowsFirstMatch(lrows, rrows, k) ==
  IF k > Len(lrows) THEN <<>>
  ELSE (IF Matches(lrows[k], rrows, 1) = <<>> THEN <<>>
        ELSE <<Head(Matches(lrows[k], rrows, 1))>>)
         \o JoinRows(lrows, rrows, k + 1)

JoinRows(lrows, rrows, k) ==
  IF k > Len(lrows) THEN <<>>
  ELSE Matches(lrows[k], rrows, 1) \o JoinRows(lrows, rrows, k + 1)

HasKey(frame) == KEY \in Range(frame.columns)

KeysOf(frame) == {frame.rows[k][KEY] : k \in 1..Len(frame.rows)}

\* a merge that rejects frames whose key sets differ
JoinErrorValidating(left, right) ==
  IF ~(HasKey(left) /\ HasKey(right)) THEN "KeyError"
  ELSE IF KeysOf(left) # KeysOf(right) THEN "MissingKeyError"
  ELSE ""

\* left.merge(right, on="material_id"): the exception it raises, "" if none
JoinError(left, right) ==
  IF ~(HasKey(left) /\ HasKey(right)) THEN "KeyError" ELSE ""

\* left.merge(right, on="material_id"): the inner join; the columns of the
\* right frame follow those of the left, the key once
merge(left, right) ==
  [err |-> JoinError(left, right),
   frame |->
     IF JoinError(left, right) # "" THEN left
     ELSE [columns |-> left.columns
                        \o SelectSeq(right.columns, LAMBDA c : c # KEY),
           rows |-> JoinRows(left.rows, right.rows, 1)]]

\* lines 8-13: the chain of three merges
MergeChain ==
  LET m1 == merge(loaded.materials[1], loaded.impact[1])
      m2 == merge(m1.frame, loaded.risk[1])
      m3 == merge(m2.frame, loaded.reg[1])
  IN  [err |-> IF m1.err # "" THEN m1.err
               ELSE IF m2.err # "" THEN m2.err ELSE m3.err,
       frame |-> m3.frame]

MergeAll ==
  /\ mpc = "merge"
  /\ IF MergeChain.err # ""
       THEN /\ merr' = MergeChain.err /\ mpc' = "raised" /\ df' = df
       ELSE /\ df' = Some(MergeChain.frame) /\ mpc' = "write"
            /\ merr' = merr
  /\ UNCHANGED <<genVars, ref, mainVars, fs, stdout, loaded>>

\* line 15: df.to_csv("data/smdi_combined.csv", index=False)
WriteCombined ==
  /\ mpc = "write"
  /\ fs' = [fs EXCEPT ![COMBINED] = df]
  /\ mpc' = "print"
  /\ UNCHANGED <<genVars, ref, mainVars, stdout, loaded, df, merr>>

\* line 17
PrintCombined ==
  /\ mpc = "print"
  /\ stdout' = Append(stdout, "Combined dataset created: " \o COMBINED)
  /\ mpc' = "done"
  /\ UNCHANGED <<genVars, ref, mainVars, fs, loaded, df, merr>>

NextMerge ==
  \/ ReadMaterials
  \/ ReadImpact
  \/ ReadRisk
  \/ ReadReg
  \/ MergeAll
  \/ WriteCombined
  \/ PrintCombined

SpecMerge == InitMerge /\ [][NextMerge]_vars

(***************************************************************************)
(* Properties of the merger.                                               *)
(***************************************************************************)
Merged == mpc \in {"write", "print", "done"}

\* number of rows of a frame that carry the id
Count(frame, id) ==
  Cardinality({k \in 1..Len(frame.rows) : frame.rows[k][KEY] = id})

InputCount(t, id) == Count(loaded[INPUTS[t].var][1], id)

InAll(id) == \A t \in 1..4 : InputCount(t, id) >= 1

\* C6 as the spec states it - Join correctness: the combined table has
\* exactly one row for each material_id present in all four inputs and no
\* row for an id missing from at least one input.
JoinOneRowPerId ==
  Merged =>
    \A id \in MergeKeys : Count(df[1], id) = IF InAll(id) THEN 1 ELSE 0

\* C6 as amended - the combined table has, for each material_id, as many
\* rows as the product of the numbers of rows carrying that id in the four
\* inputs: one row when the id occurs once in each input, none when it is
\* missing from at least one; the file written is that table.
JoinRowsPerId ==
  /\ Merged =>
       \A id \in MergeKeys :
         /\ Count(df[1], id) = InputCount(1, id) * InputCount(2, id)
                                 * InputCount(3, id) * InputCount(4, id)
         /\ (\A t \in 1..4 : InputCount(t, id) = 1) => Count(df[1], id) = 1
         /\ ~InAll(id) => Count(df[1], id) = 0
  /\ mpc = "done" => fs[COMBINED] = df

\* the merger has finished on inputs where one id occurs twice in two of
\* the tables and the other id is missing from one table
JoinWitness ==
  /\ mpc = "done"
  /\ \E id \in MergeKeys : Count(df[1], id) = 4
  /\ \E id \in MergeKeys : ~InAll(id) /\ InputCount(1, id) = 1

KeyMismatch ==
  \E t \in 1..4, u \in 1..4 :
    /\ loaded[INPUTS[t].var] # None /\ loaded[INPUTS[u].var] # None
    /\ HasKey(loaded[INPUTS[t].var][1]) /\ HasKey(loaded[INPUTS[u].var][1])
    /\ KeysOf(loaded[INPUTS[t].var][1]) # KeysOf(loaded[INPUTS[u].var][1])

\* C8 - A key mismatch is not an error: the merger raises only when an
\* input file is missing or empty or lacks the key column, never because
\* an id of one table is absent from another; on such inputs it runs to
\* its end, writes data/smdi_combined.csv, and the rows of the ids that
\* are not in all four tables are left out.
KeyMismatchNotAnError ==
  /\ merr \in {"", "FileNotFoundError", "EmptyDataError", "KeyError"}
  /\ mpc = "raised" <=> merr # ""
  /\ merr = "FileNotFoundError" => \E t \in 1..4 : fs[INPUTS[t].path] = None
  /\ merr = "EmptyDataError" =>
       \E t \in 1..4 : fs[INPUTS[t].path] = Some([columns |-> <<>>, rows |-> <<>>])
  /\ merr = "KeyError" =>
       \E t \in 1..4 : loaded[INPUTS[t].var] # None
                          /\ ~HasKey(loaded[INPUTS[t].var][1])
  /\ (mpc = "merge" /\ \A t \in 1..4 : HasKey(loaded[INPUTS[t].var][1]))
       => MergeChain.err = ""
  /\ mpc = "done" =>
       /\ fs[COMBINED] # None
       /\ \A k \in 1..Len(fs[COMBINED][1].rows) :
            InAll(fs[COMBINED][1].rows[k][KEY])

\* the merger has finished on inputs whose key sets differ, and the
\* combined file has fewer rows than the materials table
KeyMismatchWitness ==
  /\ mpc = "done" /\ merr = ""
  /\ KeyMismatch
  /\ fs[COMBINED] # None
  /\ Len(fs[COMBINED][1].rows) < Len(loaded.materials[1].rows)
  /\ Len(stdout) = 1

=============================================================================
